---------------------------- MODULE Spec2Model ----------------------------
(***************************************************************************)
(* Model of super_resolution_demo/main.cpp: the command-line driver that   *)
(* validates its flags, loads a plugin and a network, collects the input   *)
(* images, sets the batch size, compiles, fills the input blobs, runs the  *)
(* inference loop and writes the result images.                            *)
(*                                                                         *)
(* main() is one sequential procedure; pc is its position.  The inference  *)
(* engine and OpenCV calls are external: each may throw (a typed or an     *)
(* unclassified exception), which the model draws as an outcome.           *)
(***************************************************************************)
EXTENDS Integers, Sequences, FiniteSets

\* ------------------------------------------------------------------ bounds
MaxImages == 3      \* longest list of candidate paths
MaxNi     == 2      \* largest iteration count -ni
MaxInputs == 3      \* largest number of inputs a loaded network declares

\* --------------------------------------------- the network's declared shapes
LrW  == 2           \* getDims()[3] of input "0"
LrH  == 3           \* getDims()[2] of input "0"
BicW == 4           \* getDims()[3] of input "1"
BicH == 6           \* getDims()[2] of input "1"

VARIABLES
    FLAGS_h, FLAGS_ni, FLAGS_i, FLAGS_m,   \* gflags values
    pc,                \* position in main()
    exitCode,          \* value returned by main(), -1 while running
    usageShown,        \* showUsage() was called
    error,             \* site of the throw that ended the run, "none" otherwise
    caught,            \* handler that caught it: "none", "std", "unknown"
    stages,            \* calls performed so far (an observation of the run)
    imageNames,        \* std::vector<std::string> imageNames
    numInputs,         \* inputInfo.size()
    imgIdx,            \* position of the range-for over imageNames
    inputImages,       \* std::vector<cv::Mat> inputImages
    batchSize,         \* network.getBatchSize()
    compiledBatch,     \* batch dimension of the executable network
    requests,          \* number of InferRequest objects created
    lrBlob, bicBlob,   \* input blobs "0" and "1" of the request, by batch slot
    lrWrites, bicWrites, \* matU8ToBlob calls per batch slot
    bicAccess,         \* GetBlob("1") calls
    resizes,           \* cv::resize calls
    fillIdx,           \* i of the tensor-fill loop
    iter,              \* iter of the inference loop = completed Infer() calls
    outputBlob,        \* output blob of the request, by batch slot
    numOfImages,       \* outputBlob dims[0] as read at line 241
    outIdx,            \* i of the output loop
    written            \* files written by cv::imwrite, in order

flagVars  == <<FLAGS_h, FLAGS_ni, FLAGS_i, FLAGS_m>>
ctlVars   == <<pc, exitCode, error, caught>>
netVars   == <<numInputs, batchSize, compiledBatch, requests>>
collVars  == <<imgIdx, inputImages>>
blobVars  == <<lrBlob, bicBlob, lrWrites, bicWrites, bicAccess, resizes, fillIdx>>
outVars   == <<outputBlob, numOfImages, outIdx, written>>
vars == <<flagVars, ctlVars, usageShown, stages, imageNames, netVars,
          collVars, blobVars, iter, outVars>>

\* ------------------------------------------------------------ value domains
Outcomes == {"ok", "std", "unknown"}

Widths  == {LrW, LrW + 1}
Heights == {LrH, LrH + 1}

\* What a path names on disk: a file that does not decode, or an image.
FileKinds ==
    {[decodes |-> FALSE, cols |-> 0, rows |-> 0]} \cup
    {[decodes |-> TRUE, cols |-> c, rows |-> r] : c \in Widths, r \in Heights}

\* The lists parseInputFilesArguments can yield: path k names file fs[k].
CandidateLists ==
    UNION { { [k \in 1..n |-> [path |-> k, decodes |-> fs[k].decodes,
                               cols |-> fs[k].cols, rows |-> fs[k].rows]]
              : fs \in [1..n -> FileKinds] }
            : n \in 0..MaxImages }

EmptyMat == [empty |-> TRUE, path |-> 0, cols |-> 0, rows |-> 0, interp |-> "none"]

\* cv::imread(i)
imread(p) ==
    IF p.decodes
    THEN [empty |-> FALSE, path |-> p.path, cols |-> p.cols, rows |-> p.rows,
          interp |-> "none"]
    ELSE EmptyMat

\* cv::resize(img, resized, cv::Size(w, h), 0, 0, cv::INTER_CUBIC)
resize(img, w, h) ==
    [empty |-> FALSE, path |-> img.path, cols |-> w, rows |-> h,
     interp |-> "INTER_CUBIC"]

\* A batch slot of a blob nobody wrote.
Unwritten == [written |-> FALSE, precision |-> "FP32", data |-> EmptyMat]

\* matU8ToBlob<float_t>(img, blob, i): the slot's new content
matU8ToBlob(img) == [written |-> TRUE, precision |-> "FP32", data |-> img]

\* ------------------------------------------------------- the code's conditions
\* FLAGS_ni < 1
NiInvalidOffByOne == FLAGS_ni < 0
NiInvalid == FLAGS_ni < 1

\* w != img.cols || h != img.rows
SizeMismatchBothOnly(img) == LrW # img.cols /\ LrH # img.rows
SizeMismatch(img) == LrW # img.cols \/ LrH # img.rows

\* inputInfo.size() != 1 && inputInfo.size() != 2
TopologyUnsupportedUpperOnly == numInputs > 2
TopologyUnsupported == numInputs # 1 /\ numInputs # 2

\* inputImages.empty()
NoValidImagesByNames == imageNames = <<>>
NoValidImages == inputImages = <<>>

\* the argument of network.setBatchSize(...)
BatchSizeArg == Len(imageNames)

\* bool twoInputs = inputInfo.size() == 2
twoInputsAnyInput == numInputs >= 1
twoInputs == numInputs = 2

\* iter < FLAGS_ni
InferLoopCondInclusive == iter <= FLAGS_ni
InferLoopCond == iter < FLAGS_ni

\* return 1 of both catch clauses
CatchUnknownReturnsZero(kind) == IF kind = "unknown" THEN 0 ELSE 1
Catch(kind) == 1

\* outputBlob->getTensorDesc().getDims()[0]
OutputDims0 == compiledBatch

\* --------------------------------------------------------------- control flow
Throw(site, kind) ==
    /\ pc' = "done"
    /\ exitCode' = Catch(kind)
    /\ error' = site
    /\ caught' = kind

Goto(next) ==
    /\ pc' = next
    /\ UNCHANGED <<exitCode, error, caught>>

Did(stage) == stages' = stages \cup {stage}

Init ==
    /\ FLAGS_h \in BOOLEAN
    /\ FLAGS_ni \in -1..MaxNi
    /\ FLAGS_i \in {"", "images"}
    /\ FLAGS_m \in {"", "model.xml"}
    /\ pc = "start"
    /\ exitCode = -1
    /\ usageShown = FALSE
    /\ error = "none"
    /\ caught = "none"
    /\ stages = {}
    /\ imageNames = <<>>
    /\ numInputs = 0
    /\ imgIdx = 0
    /\ inputImages = <<>>
    /\ batchSize = 0
    /\ compiledBatch = 0
    /\ requests = 0
    /\ lrBlob = <<>>
    /\ bicBlob = <<>>
    /\ lrWrites = <<>>
    /\ bicWrites = <<>>
    /\ bicAccess = 0
    /\ resizes = 0
    /\ fillIdx = 0
    /\ iter = 0
    /\ outputBlob = <<>>
    /\ numOfImages = 0
    /\ outIdx = 0
    /\ written = <<>>

\* ParseAndCheckCommandLine and main's `return 0` on false
ParseAndCheckCommandLine ==
    /\ pc = "start"
    /\ Did("ParseAndCheckCommandLine")
    /\ IF FLAGS_h
       THEN /\ usageShown' = TRUE
            /\ pc' = "done"
            /\ exitCode' = 0
            /\ UNCHANGED <<error, caught>>
       ELSE /\ UNCHANGED usageShown
            /\ IF NiInvalid THEN Throw("ni", "std")
               ELSE IF FLAGS_i = "" THEN Throw("i", "std")
               ELSE IF FLAGS_m = "" THEN Throw("m", "std")
               ELSE Goto("parseInput")
    /\ UNCHANGED <<flagVars, imageNames, netVars, collVars, blobVars, iter, outVars>>

\* parseInputFilesArguments(imageNames) and the emptiness check
ParseInputFiles ==
    /\ pc = "parseInput"
    /\ Did("parseInputFilesArguments")
    /\ \E names \in CandidateLists :
        /\ imageNames' = names
        /\ IF names = <<>> THEN Throw("noimages", "std") ELSE Goto("loadPlugin")
    /\ UNCHANGED <<flagVars, usageShown, netVars, collVars, blobVars, iter, outVars>>

\* 1. PluginDispatcher(...).getPluginByDevice, AddExtension, SetConfig
LoadPlugin ==
    /\ pc = "loadPlugin"
    /\ Did("getPluginByDevice")
    /\ \E outcome \in Outcomes :
        IF outcome = "ok" THEN Goto("readNetwork") ELSE Throw("plugin", outcome)
    /\ UNCHANGED <<flagVars, usageShown, imageNames, netVars, collVars, blobVars,
                   iter, outVars>>

\* 2. ReadNetwork, ReadWeights, getNetwork, getInputsInfo and the topology check
ReadNetwork ==
    /\ pc = "readNetwork"
    /\ Did("ReadNetwork")
    /\ \E outcome \in Outcomes :
        IF outcome = "ok"
        THEN \E n \in 0..MaxInputs :
                /\ numInputs' = n
                /\ pc' = "checkInputs"
                /\ UNCHANGED <<exitCode, error, caught>>
        ELSE /\ Throw("network", outcome)
             /\ UNCHANGED numInputs
    /\ UNCHANGED <<flagVars, usageShown, imageNames, batchSize, compiledBatch,
                   requests, collVars, blobVars, iter, outVars>>

CheckInputs ==
    /\ pc = "checkInputs"
    /\ Did("checkInputs")
    /\ IF TopologyUnsupported THEN Throw("topology", "std") ELSE Goto("collect")
    /\ UNCHANGED <<flagVars, usageShown, imageNames, netVars, collVars, blobVars,
                   iter, outVars>>

\* one iteration of `for (const auto &i : imageNames)`
CollectImage ==
    /\ pc = "collect"
    /\ imgIdx < Len(imageNames)
    /\ Did("imread")
    /\ LET img == imread(imageNames[imgIdx + 1]) IN
        IF img.empty THEN UNCHANGED inputImages
        ELSE IF SizeMismatch(img) THEN UNCHANGED inputImages
        ELSE inputImages' = Append(inputImages, img)
    /\ imgIdx' = imgIdx + 1
    /\ UNCHANGED <<flagVars, ctlVars, usageShown, imageNames, netVars, blobVars,
                   iter, outVars>>

\* end of the loop: the no-valid-image check and network.setBatchSize
SetBatchSize ==
    /\ pc = "collect"
    /\ imgIdx = Len(imageNames)
    /\ IF NoValidImages
       THEN /\ Throw("novalid", "std")
            /\ UNCHANGED <<batchSize, stages>>
       ELSE /\ Did("setBatchSize")
            /\ batchSize' = BatchSizeArg
            /\ Goto("outputs")
    /\ UNCHANGED <<flagVars, usageShown, imageNames, numInputs, compiledBatch,
                   requests, collVars, blobVars, iter, outVars>>

\* getOutputsInfo, the null check and setPrecision(FP32)
PrepareOutputs ==
    /\ pc = "outputs"
    /\ Did("getOutputsInfo")
    /\ \E outcome \in {"ok", "std"} :
        IF outcome = "ok" THEN Goto("compile") ELSE Throw("output", outcome)
    /\ UNCHANGED <<flagVars, usageShown, imageNames, netVars, collVars, blobVars,
                   iter, outVars>>

\* 4. plugin.LoadNetwork(network, {})
LoadNetwork ==
    /\ pc = "compile"
    /\ Did("LoadNetwork")
    /\ \E outcome \in Outcomes :
        IF outcome = "ok"
        THEN /\ compiledBatch' = batchSize
             /\ Goto("request")
        ELSE /\ Throw("compile", outcome)
             /\ UNCHANGED compiledBatch
    /\ UNCHANGED <<flagVars, usageShown, imageNames, numInputs, batchSize,
                   requests, collVars, blobVars, iter, outVars>>

\* 5. executableNetwork.CreateInferRequest() and GetBlob("0")
CreateInferRequest ==
    /\ pc = "request"
    /\ Did("CreateInferRequest")
    /\ \E outcome \in Outcomes :
        IF outcome = "ok"
        THEN /\ requests' = requests + 1
             /\ lrBlob' = [s \in 1..compiledBatch |-> Unwritten]
             /\ lrWrites' = [s \in 1..compiledBatch |-> 0]
             /\ bicBlob' = IF numInputs = 2
                           THEN [s \in 1..compiledBatch |-> Unwritten] ELSE <<>>
             /\ bicWrites' = IF numInputs = 2
                             THEN [s \in 1..compiledBatch |-> 0] ELSE <<>>
             /\ Goto("fill")
        ELSE /\ Throw("request", outcome)
             /\ UNCHANGED <<requests, lrBlob, lrWrites, bicBlob, bicWrites>>
    /\ UNCHANGED <<flagVars, usageShown, imageNames, numInputs, batchSize,
                   compiledBatch, collVars, bicAccess, resizes, fillIdx, iter, outVars>>

\* 6. one iteration of the tensor-fill loop
FillTensor ==
    /\ pc = "fill"
    /\ fillIdx < Len(inputImages)
    /\ Did("matU8ToBlob")
    /\ LET img == inputImages[fillIdx + 1] IN
        /\ lrBlob' = [lrBlob EXCEPT ![fillIdx + 1] = matU8ToBlob(img)]
        /\ lrWrites' = [lrWrites EXCEPT ![fillIdx + 1] = @ + 1]
        /\ IF twoInputs
           THEN /\ bicAccess' = bicAccess + 1
                /\ resizes' = resizes + 1
                /\ bicBlob' = [bicBlob EXCEPT
                                 ![fillIdx + 1] = matU8ToBlob(resize(img, BicW, BicH))]
                /\ bicWrites' = [bicWrites EXCEPT ![fillIdx + 1] = @ + 1]
           ELSE UNCHANGED <<bicAccess, resizes, bicBlob, bicWrites>>
    /\ fillIdx' = fillIdx + 1
    /\ UNCHANGED <<flagVars, ctlVars, usageShown, imageNames, netVars, collVars,
                   iter, outVars>>

FillDone ==
    /\ pc = "fill"
    /\ fillIdx = Len(inputImages)
    /\ Goto("infer")
    /\ UNCHANGED <<flagVars, usageShown, stages, imageNames, netVars, collVars,
                   blobVars, iter, outVars>>

\* 7. one iteration of the inference loop: inferRequest.Infer()
Infer ==
    /\ pc = "infer"
    /\ InferLoopCond
    /\ Did("Infer")
    /\ \E outcome \in Outcomes :
        IF outcome = "ok"
        THEN /\ outputBlob' = [s \in 1..compiledBatch |->
                                 [pass |-> iter + 1, from |-> lrBlob[s]]]
             /\ iter' = iter + 1
             /\ Goto("infer")
        ELSE /\ Throw("infer", outcome)
             /\ UNCHANGED <<outputBlob, iter>>
    /\ UNCHANGED <<flagVars, usageShown, imageNames, netVars, collVars, blobVars,
                   numOfImages, outIdx, written>>

\* after the loop: the report, and 8. GetBlob(firstOutputName) with its dims
ReadOutput ==
    /\ pc = "infer"
    /\ ~InferLoopCond
    /\ Did("GetOutputBlob")
    /\ numOfImages' = OutputDims0
    /\ Goto("write")
    /\ UNCHANGED <<flagVars, usageShown, imageNames, netVars, collVars, blobVars,
                   iter, outputBlob, outIdx, written>>

\* one iteration of the output loop: convertTo, merge, imshow, imwrite
WriteOutput ==
    /\ pc = "write"
    /\ outIdx < numOfImages
    /\ Did("imwrite")
    /\ \E outcome \in Outcomes :
        IF outcome = "ok"
        THEN /\ written' = Append(written, [name |-> outIdx + 1,
                                            data |-> outputBlob[outIdx + 1]])
             /\ outIdx' = outIdx + 1
             /\ Goto("write")
        ELSE /\ Throw("write", outcome)
             /\ UNCHANGED <<written, outIdx>>
    /\ UNCHANGED <<flagVars, usageShown, imageNames, netVars, collVars, blobVars,
                   iter, outputBlob, numOfImages>>

\* "Execution successful", return 0
Finish ==
    /\ pc = "write"
    /\ outIdx = numOfImages
    /\ pc' = "done"
    /\ exitCode' = 0
    /\ UNCHANGED <<flagVars, error, caught, usageShown, stages, imageNames, netVars,
                   collVars, blobVars, iter, outVars>>

Next ==
    \/ ParseAndCheckCommandLine
    \/ ParseInputFiles
    \/ LoadPlugin
    \/ ReadNetwork
    \/ CheckInputs
    \/ CollectImage
    \/ SetBatchSize
    \/ PrepareOutputs
    \/ LoadNetwork
    \/ CreateInferRequest
    \/ FillTensor
    \/ FillDone
    \/ Infer
    \/ ReadOutput
    \/ WriteOutput
    \/ Finish

Spec == Init /\ [][Next]_vars

\* ------------------------------------------------------------------ claims
\* A candidate path is accepted when its file decodes and has exactly the
\* low-resolution width and height.
Accepted(p) == p.decodes /\ p.cols = LrW /\ p.rows = LrH

AcceptedCount == Cardinality({k \in DOMAIN imageNames : Accepted(imageNames[k])})

\* The decoded images of the accepted paths of a list, in the list's order.
RECURSIVE AcceptedImages(_)
AcceptedImages(names) ==
    IF names = <<>> THEN <<>>
    ELSE LET rest == AcceptedImages(Tail(names))
             p == Head(names)
         IN IF Accepted(p)
            THEN <<[empty |-> FALSE, path |-> p.path, cols |-> p.cols,
                    rows |-> p.rows, interp |-> "none"]>> \o rest
            ELSE rest

AfterCollect == {"outputs", "compile", "request", "fill", "infer", "write"}

\* C1: a run that completes output materialization has written exactly as
\* many files as there are accepted images.
C1_OutputCountEqualsAccepted ==
    (pc = "done" /\ exitCode = 0 /\ ~usageShown) => Len(written) = AcceptedCount

\* C2: from input binding onward the batch size set on the network equals the
\* number of images kept in the accepted-image list.
C2_BatchSizeEqualsAccepted ==
    "setBatchSize" \in stages =>
        /\ batchSize = Len(inputImages)
        /\ "CreateInferRequest" \in stages /\ error # "compile"
              => compiledBatch = Len(inputImages)

\* C3: once a forward pass has run, every batch slot of the low-resolution
\* input blob has been written by the tensor-fill loop.
C3_EverySlotPopulated ==
    iter >= 1 => \A s \in 1..batchSize : lrBlob[s].written

\* C4: the exit code is 0 exactly for help or a run that completed every stage
\* without error, 1 for every raised error whichever handler caught it, and
\* with the help flag the run ends at once with 0 and runs no later stage.
C4_ExitCode ==
    /\ pc # "done" => exitCode = -1 /\ error = "none"
    /\ pc = "done" =>
          /\ exitCode \in {0, 1}
          /\ exitCode = 0 <=>
                \/ usageShown
                \/ /\ error = "none"
                   /\ "GetOutputBlob" \in stages
                   /\ outIdx = numOfImages
          /\ error # "none" => exitCode = 1 /\ caught \in {"std", "unknown"}
          /\ caught # "none" => exitCode = 1
    /\ FLAGS_h =>
          \/ pc = "start"
          \/ /\ pc = "done"
             /\ exitCode = 0
             /\ usageShown
             /\ stages = {"ParseAndCheckCommandLine"}
    /\ usageShown => FLAGS_h

C4_Witness ==
    /\ pc = "done"
    /\ caught = "unknown"
    /\ error = "write"
    /\ written # <<>>
    /\ exitCode = 1

\* C5: with -ni < 1 and no help flag the run ends with exit code 1 in
\* parameter validation; no plugin load, model load, compile, forward pass or
\* output write ever happens, whatever -i and -m are.
C5_NiBelowOneAborts ==
    (FLAGS_ni < 1 /\ ~FLAGS_h) =>
        /\ pc \in {"start", "done"}
        /\ stages \cap {"getPluginByDevice", "ReadNetwork", "LoadNetwork",
                        "Infer", "imwrite"} = {}
        /\ pc = "done" => exitCode = 1 /\ error = "ni"

C5_Witness ==
    /\ pc = "done"
    /\ FLAGS_ni = 0
    /\ ~FLAGS_h
    /\ FLAGS_i = ""
    /\ FLAGS_m = ""
    /\ exitCode = 1

NetworkLoaded == pc = "checkInputs" \/ "checkInputs" \in stages

\* C6: a loaded network with fewer than 1 or more than 2 inputs ends the run
\* with exit code 1 before any image is decoded, before compilation, before
\* any forward pass and before any output file; with 1 or 2 inputs the
\* input-count check never ends the run.
C6_InputCountCheck ==
    /\ (NetworkLoaded /\ (numInputs < 1 \/ numInputs > 2)) =>
          /\ stages \cap {"imread", "LoadNetwork", "Infer", "imwrite"} = {}
          /\ written = <<>>
          /\ pc \in {"checkInputs", "done"}
          /\ pc = "done" => exitCode = 1 /\ error = "topology"
    /\ (NetworkLoaded /\ numInputs \in {1, 2}) => error # "topology"

C6_Witness ==
    /\ pc = "done"
    /\ error = "topology"
    /\ numInputs = 0
    /\ exitCode = 1

C7_Passes ==
    /\ "Infer" \in stages => iter <= FLAGS_ni
    /\ "GetOutputBlob" \in stages => iter = FLAGS_ni /\ FLAGS_ni >= 1
    /\ \A k \in DOMAIN written :
          /\ iter = FLAGS_ni
          /\ written[k].data.pass = FLAGS_ni
    /\ requests <= 1
    /\ iter >= 1 => requests = 1

C7_InputsKept ==
    pc \in {"infer", "write"} => (lrBlob' = lrBlob /\ bicBlob' = bicBlob)

\* C7: a run that reaches the inference loop performs exactly -ni forward
\* passes on its single request, all of them before the output blob is read
\* or a file written; the files hold the last pass's output; and no step
\* taken in or after the inference loop changes an input blob.
C7_ExactlyNiPasses ==
    /\ []C7_Passes
    /\ [][C7_InputsKept]_vars

C7_Witness ==
    /\ pc = "done"
    /\ exitCode = 0
    /\ FLAGS_ni = 2
    /\ iter = 2
    /\ written # <<>>

\* C8: when no candidate survives validation (an empty path list, or every
\* candidate undecodable or of the wrong size) the run ends with a fatal
\* error and exit code 1; the batch size is never set, the network is never
\* compiled, no forward pass runs and no file is written.
C8_NoValidImagesAborts ==
    ("parseInputFilesArguments" \in stages /\ AcceptedCount = 0) =>
        /\ "setBatchSize" \notin stages
        /\ batchSize = 0
        /\ stages \cap {"LoadNetwork", "CreateInferRequest", "Infer", "imwrite"} = {}
        /\ iter = 0
        /\ written = <<>>
        /\ pc \notin AfterCollect
        /\ pc = "done" =>
              /\ exitCode = 1
              /\ error \in {"noimages", "plugin", "network", "topology", "novalid"}
              /\ (error = "noimages") <=> (imageNames = <<>>)

C8_Witness ==
    /\ pc = "done"
    /\ error = "novalid"
    /\ exitCode = 1
    /\ Len(imageNames) = 2
    /\ ~imageNames[1].decodes
    /\ imageNames[2].decodes

\* C9: a rejected candidate is skipped without ending the run or affecting
\* later candidates: the accepted-image list is the subsequence of valid
\* candidates in order, and the tensor-fill loop writes the j-th accepted
\* image into slot j of the low-resolution blob, each slot below the number
\* of accepted images exactly once and no other slot.
C9_SkipKeepsOrder ==
    /\ imgIdx <= Len(imageNames)
    /\ inputImages = AcceptedImages(SubSeq(imageNames, 1, imgIdx))
    /\ pc \in AfterCollect => inputImages = AcceptedImages(imageNames)
    /\ AcceptedCount > 0 => error # "novalid"
    /\ fillIdx <= Len(inputImages)
    /\ pc \in {"infer", "write"} => fillIdx = Len(inputImages)
    /\ "CreateInferRequest" \in stages /\ error # "request" =>
          /\ Len(inputImages) <= Len(lrBlob)
          /\ \A s \in DOMAIN lrBlob :
                IF s <= fillIdx
                THEN /\ lrBlob[s] = [written |-> TRUE, precision |-> "FP32",
                                     data |-> inputImages[s]]
                     /\ lrWrites[s] = 1
                ELSE /\ ~lrBlob[s].written
                     /\ lrWrites[s] = 0

C9_Witness ==
    /\ pc = "infer"
    /\ Len(imageNames) = 3
    /\ Accepted(imageNames[1])
    /\ ~Accepted(imageNames[2])
    /\ Accepted(imageNames[3])
    /\ Len(inputImages) = 2
    /\ lrBlob[2].data.path = 3

\* C10: with 2 declared inputs the tensor-fill loop writes into slot j of the
\* second input, before the first forward pass, the cubic resize of the j-th
\* accepted image to the second input's width and height; with 1 declared
\* input the second input is never accessed and nothing is resized.
C10_BicubicCompanion ==
    /\ numInputs = 2 =>
          /\ resizes = fillIdx
          /\ bicAccess = fillIdx
          /\ \A s \in DOMAIN bicBlob :
                IF s <= fillIdx
                THEN /\ bicBlob[s] =
                          [written |-> TRUE, precision |-> "FP32",
                           data |-> [empty |-> FALSE, path |-> inputImages[s].path,
                                     cols |-> BicW, rows |-> BicH,
                                     interp |-> "INTER_CUBIC"]]
                     /\ bicWrites[s] = 1
                ELSE bicWrites[s] = 0
          /\ "Infer" \in stages =>
                /\ fillIdx = Len(inputImages)
                /\ Len(inputImages) <= Len(bicBlob)
    /\ numInputs # 2 =>
          /\ bicAccess = 0
          /\ resizes = 0
          /\ bicBlob = <<>>
          /\ bicWrites = <<>>

C10_Witness ==
    /\ numInputs = 2
    /\ iter >= 1
    /\ Len(inputImages) = 2
    /\ bicBlob[2].written
    /\ bicBlob[2].data.path = inputImages[2].path

=============================================================================
